---- MODULE Spec2Model ----
(***************************************************************************)
(* Lumina: hybrid speech recognition hook (useHybridSpeechRecognition).    *)
(* Two recognition workers (Vosk: fast, Whisper: accurate) are fed from    *)
(* one audio callback; their results are merged into text / interimText.   *)
(*                                                                         *)
(* Strings are sequences of one-character strings, so that trim,           *)
(* toLowerCase, slice, includes and split are computed as JavaScript       *)
(* computes them.                                                          *)
(***************************************************************************)
EXTENDS Integers, Sequences, FiniteSets, TLC

(***************************************************************************)
(* String helpers (JavaScript String.prototype semantics)                  *)
(***************************************************************************)

MaxOf(S) == CHOOSE x \in S : \A y \in S : y <= x

MinOf(S) == CHOOSE x \in S : \A y \in S : x <= y

\* Characters String.prototype.trim removes.
WhiteSpace == {" ", "\t", "\n"}

\* The upper-case letters and their lower-case forms.
LowerOf ==
    [A |-> "a", B |-> "b", C |-> "c", D |-> "d", E |-> "e", F |-> "f",
     G |-> "g", H |-> "h", I |-> "i", J |-> "j", K |-> "k", L |-> "l",
     M |-> "m", N |-> "n", O |-> "o", P |-> "p", Q |-> "q", R |-> "r",
     S |-> "s", T |-> "t", U |-> "u", V |-> "v", W |-> "w", X |-> "x",
     Y |-> "y", Z |-> "z"]

\* s.toLowerCase()
ToLowerCase(s) ==
    [i \in 1..Len(s) |-> IF s[i] \in DOMAIN LowerOf THEN LowerOf[s[i]] ELSE s[i]]

\* s.trim()
Trim(s) ==
    LET keep == {i \in 1..Len(s) : s[i] \notin WhiteSpace}
    IN  IF keep = {} THEN <<>> ELSE SubSeq(s, MinOf(keep), MaxOf(keep))

\* s.includes(sub)
Includes(s, sub) ==
    \E i \in 0..(Len(s) - Len(sub)) : SubSeq(s, i + 1, i + Len(sub)) = sub

\* s.slice(-n)
SliceLast(s, n) ==
    SubSeq(s, IF Len(s) > n THEN Len(s) - n + 1 ELSE 1, Len(s))

\* s.split(' ')
RECURSIVE Split(_)
Split(s) ==
    IF \A i \in 1..Len(s) : s[i] # " "
    THEN <<s>>
    ELSE LET i == MinOf({j \in 1..Len(s) : s[j] = " "})
         IN  <<SubSeq(s, 1, i - 1)>> \o Split(SubSeq(s, i + 1, Len(s)))

\* words.join(' ')
RECURSIVE Join(_)
Join(words) ==
    IF Len(words) = 0 THEN <<>>
    ELSE IF Len(words) = 1 THEN words[1]
    ELSE words[1] \o <<" ">> \o Join(Tail(words))

\* words.lastIndexOf(w), 0-based, -1 when absent
LastIndexOf(words, w) ==
    LET at == {i \in 1..Len(words) : words[i] = w}
    IN  IF at = {} THEN -1 ELSE MaxOf(at) - 1

\* words.slice(from), 0-based
SliceFrom(words, from) == SubSeq(words, from + 1, Len(words))

(***************************************************************************)
(* TranscriptReconciler: the two setText updaters                          *)
(***************************************************************************)

\* prev.slice(-20): the tail of the committed text that is compared
SuffixWindow == 20

\* clean.length > prev.length * 1.3, as 10 * clean.length > 13 * prev.length
RatioNum == 13

RatioDen == 10

\* FastMerge with the append forgotten: the new Final replaces the text.
FastMergeReplaces(prev, clean) == clean

\* setText updater of the Vosk 'result' handler
FastMerge(prev, clean) ==
    IF prev = <<>> THEN clean
    ELSE IF RatioDen * Len(clean) > RatioNum * Len(prev) THEN clean
    ELSE IF Includes(ToLowerCase(clean), SliceLast(ToLowerCase(prev), SuffixWindow))
         THEN clean
    ELSE prev \o <<" ">> \o clean

\* AccurateMerge that appends the Accurate text when no word after the
\* overlap is kept, where the code replaces.
AccurateMergeAppends(prev, clean) ==
    IF prev = <<>> THEN clean
    ELSE LET prevWords == Split(ToLowerCase(prev))
             cleanWords == Split(ToLowerCase(clean))
             lastWhisperWord == cleanWords[Len(cleanWords)]
             overlapIdx == LastIndexOf(prevWords, lastWhisperWord)
         IN  IF overlapIdx # -1 /\ overlapIdx < Len(prevWords) - 1
             THEN clean \o <<" ">> \o Join(SliceFrom(prevWords, overlapIdx + 1))
             ELSE prev \o <<" ">> \o clean

\* AccurateMerge that keeps the committed text when the last Accurate word
\* is not found in it, where the code takes the Accurate text.
AccurateMergeKeepsUnmatched(prev, clean) ==
    IF prev = <<>> THEN clean
    ELSE LET prevWords == Split(ToLowerCase(prev))
             cleanWords == Split(ToLowerCase(clean))
             lastWhisperWord == cleanWords[Len(cleanWords)]
             overlapIdx == LastIndexOf(prevWords, lastWhisperWord)
         IN  IF overlapIdx # -1 /\ overlapIdx < Len(prevWords) - 1
             THEN clean \o <<" ">> \o Join(SliceFrom(prevWords, overlapIdx + 1))
             ELSE IF overlapIdx = -1 THEN prev
             ELSE clean

\* setText updater of the Whisper 'result' handler
AccurateMerge(prev, clean) ==
    IF prev = <<>> THEN clean
    ELSE LET prevWords == Split(ToLowerCase(prev))
             cleanWords == Split(ToLowerCase(clean))
             lastWhisperWord == cleanWords[Len(cleanWords)]
             overlapIdx == LastIndexOf(prevWords, lastWhisperWord)
         IN  IF overlapIdx # -1 /\ overlapIdx < Len(prevWords) - 1
             THEN clean \o <<" ">> \o Join(SliceFrom(prevWords, overlapIdx + 1))
             ELSE clean

(***************************************************************************)
(* Texts the recognisers produce (the engines are black boxes: their       *)
(* output is drawn from this set)                                          *)
(***************************************************************************)

\* "hello"
Hello ==
    <<"h", "e", "l", "l", "o">>

\* "world"
World ==
    <<"w", "o", "r", "l", "d">>

\* "the weather is nice"
WeatherNice ==
    <<"t", "h", "e", " ", "w", "e", "a", "t", "h", "e", "r", " ", "i",
    "s", " ", "n", "i", "c", "e">>

\* "is nice today"
IsNiceToday ==
    <<"i", "s", " ", "n", "i", "c", "e", " ", "t", "o", "d", "a", "y">>

\* "the whether is nice today"
WhetherNiceToday ==
    <<"t", "h", "e", " ", "w", "h", "e", "t", "h", "e", "r", " ", "i",
    "s", " ", "n", "i", "c", "e", " ", "t", "o", "d", "a", "y">>

\* "Nice Today"
NiceTodayCaps ==
    <<"N", "i", "c", "e", " ", "T", "o", "d", "a", "y">>

\* " hi "
PaddedHi ==
    <<" ", "h", "i", " ">>

\* " "
Blank ==
    <<" ">>

\* ""
Empty == <<>>

\* Raw final outputs of the Vosk recogniser.
FastTexts ==
    {Hello, World, WeatherNice, IsNiceToday, WhetherNiceToday, NiceTodayCaps,
     PaddedHi, Blank}

\* Raw outputs of the Whisper transcriber.
AccurateTexts == {Hello, WeatherNice, PaddedHi, Empty}

\* Raw partial outputs of the Vosk recogniser.
PartialTexts == {Hello, PaddedHi, Blank}

\* vosk.worker.js posts a 'partial' / 'result' only when text.trim() is non-empty.
VoskWorkerPosts(raw) == Len(Trim(raw)) > 0

\* whisper.worker.js posts text.trim(), the empty string included.
WhisperWorkerText(raw) == Trim(raw)

(***************************************************************************)
(* Bounds of the model                                                     *)
(***************************************************************************)

\* Recognition events (partials and finals) delivered in one behaviour.
MaxEvents == 3

\* Audio callbacks in one behaviour.
MaxFrames == 20

\* Calls of startListening, stopListening and reloadModel in one behaviour.
MaxControls == 2

\* 'transcribe' requests the vosk worker may have waiting when a callback runs.
MaxVoskInbox == 1

\* Date.now() at the first audio callback, in ms (any wall-clock reading).
StartTime == 100000

\* Audio callbacks in one behaviour of the audio path (SpecAudio): enough for
\* an utterance, the silence after it, a dispatch and the silence that
\* follows up to a second dispatch.
MaxAudioFrames == 51

\* Audio callbacks in one behaviour of the fast path (SpecFast).
MaxFastFrames == 8

\* ms between two callbacks that the main thread ran late, one after the other.
ShortGap == 40

\* Speech callbacks already heard when the buffer cap is explored (SpecCap):
\* just under 30 s of audio are buffered for Whisper.
CapStartFrames == 232

\* Audio callbacks of the session up to which the cap is explored (SpecCap):
\* enough for the cap to be passed and for a pause to end in a dispatch.
MaxCapFrames == 248

\* Audio callbacks of the later-session specification, the first session's
\* included: the later session can arm the settle timer and see it fire.
MaxRetryFrames == 40

(***************************************************************************)
(* Constants of the audio path. Sample counts are samples at 16 kHz, times *)
(* are ms, RMS values are in units of 0.0001.                              *)
(***************************************************************************)

\* new AudioContext({ sampleRate: 16000 })
SampleRate == 16000

\* createScriptProcessor(2048, 1, 1): samples per audio callback
FrameSize == 2048

\* Duration of one callback's samples ("128ms buffer")
FrameMs == (FrameSize * 1000) \div SampleRate

\* VOSK_CHUNK_SIZE = 16000 * 0.15
VOSK_CHUNK_SIZE == 2400

\* VOSK_MIN_INTERVAL
VOSK_MIN_INTERVAL == 100

\* WHISPER_SILENCE_THRESHOLD
WHISPER_SILENCE_THRESHOLD == 1500

\* SPEECH_THRESHOLD = 0.001
SPEECH_THRESHOLD == 10

\* rms > 0.0002 guards the dispatch to Vosk
VoskRmsFloor == 2

\* overlapSamples = Math.floor(16000 * 0.05)
OverlapSamples == 800

\* sendToWhisper needs whisperBufferLength >= 16000
MinWhisperSamples == 16000

\* the settle timer is armed only above 16000 * 2 buffered samples
MinArmSamples == 32000

\* setTimeout(..., 500): the settle timer
SettleMs == 500

\* maxWhisperSamples = 16000 * 30
MaxWhisperSamples == 480000

\* RMS of a callback's samples: silence (0), speech (0.002).
RmsLevels == {0, 20}

\* Texts the recognisers produce while the audio path is explored.
SessionTexts == {Hello, Empty}

(***************************************************************************)
(* State                                                                   *)
(***************************************************************************)

VARIABLES
    text,                 \* useState text: the committed transcript
    interimText,          \* useState interimText
    isListening,          \* useState isListening
    error,                \* useState error: "none" is null
    isModelLoading,       \* useState isModelLoading, mirrored by isModelLoadingRef
    engineStatus,         \* useState engineStatus: [vosk, whisper]
    voskRecognizer,       \* vosk worker: recognizer created
    whisperTranscriber,   \* whisper worker: transcriber created
    voskInit,             \* vosk worker: "pending" until it answers 'init'
    whisperInit,          \* whisper worker: "pending" until it answers 'init'
    voskInbox,            \* 'transcribe' messages the vosk worker has not handled
    voskHeard,            \* the recognizer has accepted a waveform
    whisperInbox,         \* 'transcribe' requests whisper has not answered
    capturing,            \* the ScriptProcessor is connected
    sessionWhisperStatus, \* engineStatus.whisper captured by sendToWhisper
    now,                  \* Date.now() at the latest audio callback
    frames,               \* audio callbacks so far
    lastSpeechTime,       \* lastSpeechTimeRef
    silenceTimeoutRef,    \* silenceTimeoutRef.current is non-null
    timerAt,              \* time the pending settle timer fires, -1: none
    whisperBuffer,        \* whisperBufferRef: chunks
    whisperBufferLength,  \* whisperBufferLengthRef
    voskBuffer,           \* voskBuffer of the running session
    voskBufferLength,     \* voskBufferLength of the running session
    lastVoskSendTime,     \* lastVoskSendTime of the running session
    audioLevel,           \* useState audioLevel
    whisperSent,          \* history: the latest window posted to whisper, their count
    voskSent,             \* history: the latest two windows posted to vosk
    lastCallback,         \* history: the latest audio callback
    controls,             \* history: calls of start, stop and reload so far
    recording,            \* history: whether events and commits are kept
    events,               \* history: recognition events delivered to the hook
    commits,              \* history: text before the first and after each event
    displayText,          \* SubtitlePopup: useState displayText
    fullTextRef,          \* SubtitlePopup: fullTextRef
    lastClearPointRef,    \* SubtitlePopup: lastClearPointRef
    speech                \* useSpeechRecognition: the single-engine hook's state

displayVars == <<text, interimText>>

hookVars == <<isListening, error, isModelLoading, engineStatus>>

workerVars ==
    <<voskRecognizer, whisperTranscriber, voskInit, whisperInit, voskInbox,
      voskHeard, whisperInbox>>

audioVars ==
    <<capturing, sessionWhisperStatus, now, frames, lastSpeechTime,
      silenceTimeoutRef, timerAt, whisperBuffer, whisperBufferLength,
      voskBuffer, voskBufferLength, lastVoskSendTime, audioLevel>>

historyVars ==
    <<whisperSent, voskSent, lastCallback, controls, recording, events, commits>>

\* The overlay window.
popupVars == <<displayText, fullTextRef, lastClearPointRef>>

\* What is not the hybrid hook: the overlay window and the single-engine hook.
otherVars == <<popupVars, speech>>

hybridVars == <<displayVars, hookVars, workerVars, audioVars, historyVars>>

vars == <<hybridVars, otherVars>>

\* History before any window was posted to the whisper worker. speechAt is
\* lastSpeechTimeRef at the latest dispatch, prevSpeechAt at the one before.
NoWhisperSent ==
    [count |-> 0, at |-> 0, window |-> <<>>, speechAt |-> 0, prevSpeechAt |-> 0]

\* History (kept while recording) before any window was posted to the vosk
\* worker. kept is voskBuffer as the latest dispatch left it, prevAt and
\* prevWindow are the dispatch before it (prevAt -1: none).
NoVoskSent ==
    [at |-> 0, window |-> <<>>, kept |-> <<>>, prevAt |-> -1, prevWindow |-> <<>>]

\* History before any audio callback. armed and dispatched are the settle
\* timer and whisperSent.count as the callback found them.
NoCallback ==
    [processed |-> FALSE, rms |-> 0, armed |-> FALSE, dispatched |-> 0]

\* The overlay window after it is mounted.
PopupMounted ==
    /\ displayText = <<>>
    /\ fullTextRef = <<>>
    /\ lastClearPointRef = 0

\* The single-engine hook after it is mounted: its worker created and sent
\* 'init'. inbox counts the 'transcribe' requests the worker has not
\* answered. The last eight fields are history: the RMS of the latest
\* callback (-1: none), the times the RMS changed between two callbacks, the
\* answers handled, the calls of start, stop and reload, the callbacks, and
\* for the latest callback whether its buffer met the size, interval and
\* signal conditions (due), whether no request was in flight (idle) and
\* whether it posted the window (sent).
SpeechMounted ==
    [text |-> <<>>, interimText |-> <<>>, isListening |-> FALSE,
     error |-> "none", audioLevel |-> 0, isModelLoading |-> TRUE,
     isProcessing |-> FALSE, capturing |-> FALSE, workerInit |-> "pending",
     transcriber |-> FALSE, inbox |-> 0, buffer |-> <<>>, bufferLength |-> 0,
     lastProcessTime |-> 0, now |-> StartTime, heard |-> -1, turns |-> 0,
     answers |-> 0, calls |-> 0, frames |-> 0, due |-> FALSE, idle |-> FALSE,
     sent |-> FALSE]

\* The overlay window and the single-engine hook as they are mounted.
OthersMounted == PopupMounted /\ speech = SpeechMounted

\* The state after the hook is mounted: both workers created and sent 'init'.
Init ==
    /\ text = <<>>
    /\ interimText = <<>>
    /\ isListening = FALSE
    /\ error = "none"
    /\ isModelLoading = TRUE
    /\ engineStatus = [vosk |-> "loading", whisper |-> "loading"]
    /\ voskRecognizer = FALSE
    /\ whisperTranscriber = FALSE
    /\ voskInit = "pending"
    /\ whisperInit = "pending"
    /\ voskInbox = 0
    /\ voskHeard = FALSE
    /\ whisperInbox = 0
    /\ capturing = FALSE
    /\ sessionWhisperStatus = "loading"
    /\ now = StartTime
    /\ frames = 0
    /\ lastSpeechTime = 0
    /\ silenceTimeoutRef = FALSE
    /\ timerAt = -1
    /\ whisperBuffer = <<>>
    /\ whisperBufferLength = 0
    /\ voskBuffer = <<>>
    /\ voskBufferLength = 0
    /\ lastVoskSendTime = 0
    /\ audioLevel = 0
    /\ whisperSent = NoWhisperSent
    /\ voskSent = NoVoskSent
    /\ lastCallback = NoCallback
    /\ controls = 0
    /\ recording = FALSE
    /\ events = <<>>
    /\ commits = <<text>>
    /\ OthersMounted

(***************************************************************************)
(* EngineHealthTracker                                                     *)
(***************************************************************************)

\* The effect without its branch for both engines failed: isModelLoading
\* stays as it is when neither engine is ready.
EngineStatusEffectNoFailed(status, loading, err) ==
    LET bothReady == status.vosk = "ready" /\ status.whisper = "ready"
        atLeastOneReady == status.vosk = "ready" \/ status.whisper = "ready"
        bothDone == status.vosk # "loading" /\ status.whisper # "loading"
    IN  IF bothReady THEN [isModelLoading |-> FALSE, error |-> "none"]
        ELSE IF atLeastOneReady /\ bothDone
             THEN [isModelLoading |-> FALSE, error |-> err]
        ELSE [isModelLoading |-> loading, error |-> err]

\* The effect without its branch for one surviving engine: any engine in
\* error, once both are done, is reported as both having failed.
EngineStatusEffectStrict(status, loading, err) ==
    LET bothReady == status.vosk = "ready" /\ status.whisper = "ready"
        bothDone == status.vosk # "loading" /\ status.whisper # "loading"
    IN  IF bothReady THEN [isModelLoading |-> FALSE, error |-> "none"]
        ELSE IF bothDone
             THEN [isModelLoading |-> FALSE, error |-> "both engines failed"]
        ELSE [isModelLoading |-> loading, error |-> err]

\* The effect on [engineStatus]: the new isModelLoading and error.
EngineStatusEffect(status, loading, err) ==
    LET bothReady == status.vosk = "ready" /\ status.whisper = "ready"
        atLeastOneReady == status.vosk = "ready" \/ status.whisper = "ready"
        bothDone == status.vosk # "loading" /\ status.whisper # "loading"
    IN  IF bothReady THEN [isModelLoading |-> FALSE, error |-> "none"]
        ELSE IF atLeastOneReady /\ bothDone
             THEN [isModelLoading |-> FALSE, error |-> err]
        ELSE IF bothDone /\ ~atLeastOneReady
             THEN [isModelLoading |-> FALSE, error |-> "both engines failed"]
        ELSE [isModelLoading |-> loading, error |-> err]

\* setEngineStatus(status), setError(err), then the effect on [engineStatus].
SetEngineStatus(status, err) ==
    LET eff == EngineStatusEffect(status, isModelLoading, err)
    IN  /\ engineStatus' = status
        /\ isModelLoading' = eff.isModelLoading
        /\ error' = eff.error

\* The vosk 'ready' and 'error' handlers setting a whole new status instead
\* of spreading prev: the whisper field falls back to "loading".
VoskInitDoneResets(ok) ==
    /\ voskInit = "pending"
    /\ voskInit' = "done"
    /\ voskRecognizer' = ok
    /\ IF ok
       THEN SetEngineStatus([vosk |-> "ready", whisper |-> "loading"], error)
       ELSE SetEngineStatus([vosk |-> "error", whisper |-> "loading"], "vosk error")
    /\ UNCHANGED <<displayVars, isListening, whisperTranscriber, whisperInit,
                   voskInbox, voskHeard, whisperInbox, audioVars, historyVars,
                   otherVars>>

\* The vosk worker answers 'init': recognizer created and 'ready', or 'error'.
VoskInitDone(ok) ==
    /\ voskInit = "pending"
    /\ voskInit' = "done"
    /\ voskRecognizer' = ok
    /\ IF ok
       THEN SetEngineStatus([engineStatus EXCEPT !.vosk = "ready"], error)
       ELSE SetEngineStatus([engineStatus EXCEPT !.vosk = "error"], "vosk error")
    /\ UNCHANGED <<displayVars, isListening, whisperTranscriber, whisperInit,
                   voskInbox, voskHeard, whisperInbox, audioVars, historyVars,
                   otherVars>>

\* The whisper worker answers 'init': transcriber created and 'ready', or 'error'.
WhisperInitDone(ok) ==
    /\ whisperInit = "pending"
    /\ whisperInit' = "done"
    /\ whisperTranscriber' = ok
    /\ IF ok
       THEN SetEngineStatus([engineStatus EXCEPT !.whisper = "ready"], error)
       ELSE SetEngineStatus([engineStatus EXCEPT !.whisper = "error"], error)
    /\ UNCHANGED <<displayVars, isListening, voskRecognizer, voskInit,
                   voskInbox, voskHeard, whisperInbox, audioVars, historyVars,
                   otherVars>>

(***************************************************************************)
(* TranscriptReconciler: the workers' onmessage handlers                   *)
(***************************************************************************)

\* History of a delivered event.
Record(engine, kind, resultText) ==
    /\ IF recording
       THEN /\ events' = Append(events, [engine |-> engine, kind |-> kind,
                                          text |-> resultText,
                                          interim |-> interimText',
                                          listening |-> isListening])
            /\ commits' = Append(commits, text')
       ELSE UNCHANGED <<events, commits>>
    /\ UNCHANGED <<whisperSent, voskSent, lastCallback, controls, recording>>
    /\ UNCHANGED otherVars

\* The history holds at most MaxEvents events.
RoomInHistory == recording => Len(events) < MaxEvents

\* The 'partial' handler without the trim: interimText takes the raw text.
VoskPartialUntrimmed(resultText) ==
    /\ voskHeard
    /\ VoskWorkerPosts(resultText)
    /\ RoomInHistory
    /\ interimText' = resultText
    /\ text' = text
    /\ Record("vosk", "partial", resultText)
    /\ UNCHANGED <<hookVars, workerVars, audioVars>>

\* voskWorker.onmessage, type 'partial'
VoskPartial(resultText) ==
    /\ voskHeard
    /\ VoskWorkerPosts(resultText)
    /\ RoomInHistory
    /\ LET clean == Trim(resultText)
       IN  interimText' =
               IF resultText # <<>> /\ Len(clean) > 0 THEN clean ELSE interimText
    /\ text' = text
    /\ Record("vosk", "partial", resultText)
    /\ UNCHANGED <<hookVars, workerVars, audioVars>>

\* voskWorker.onmessage, type 'result'
VoskResult(resultText) ==
    /\ voskHeard
    /\ VoskWorkerPosts(resultText)
    /\ RoomInHistory
    /\ LET clean == Trim(resultText)
       IN  IF resultText # <<>> /\ Len(clean) > 0
           THEN /\ text' = FastMerge(text, clean)
                /\ interimText' = <<>>
           ELSE UNCHANGED displayVars
    /\ Record("vosk", "final", resultText)
    /\ UNCHANGED <<hookVars, workerVars, audioVars>>

\* The Whisper 'result' handler without its test for an empty text.
WhisperResultUnchecked(raw) ==
    /\ whisperInbox > 0
    /\ whisperTranscriber
    /\ RoomInHistory
    /\ whisperInbox' = whisperInbox - 1
    /\ interimText' = interimText
    /\ LET resultText == WhisperWorkerText(raw)
           clean == Trim(resultText)
       IN  /\ text' = AccurateMerge(text, clean)
           /\ Record("whisper", "final", resultText)
    /\ UNCHANGED <<hookVars, voskRecognizer, whisperTranscriber, voskInit,
                   whisperInit, voskInbox, voskHeard, audioVars>>

\* The whisper worker answers a 'transcribe' with its trimmed text;
\* whisperWorker.onmessage, type 'result'
WhisperResult(raw) ==
    /\ whisperInbox > 0
    /\ whisperTranscriber
    /\ RoomInHistory
    /\ whisperInbox' = whisperInbox - 1
    /\ interimText' = interimText
    /\ LET resultText == WhisperWorkerText(raw)
           clean == Trim(resultText)
       IN  /\ IF resultText # <<>> /\ Len(clean) > 0
              THEN text' = AccurateMerge(text, clean)
              ELSE text' = text
           /\ Record("whisper", "final", resultText)
    /\ UNCHANGED <<hookVars, voskRecognizer, whisperTranscriber, voskInit,
                   whisperInit, voskInbox, voskHeard, audioVars>>

(***************************************************************************)
(* Control surface                                                         *)
(***************************************************************************)

\* A call of the control surface, counted.
Control ==
    /\ controls < MaxControls
    /\ controls' = controls + 1
    /\ UNCHANGED <<whisperSent, voskSent, lastCallback, recording, events, commits>>
    /\ UNCHANGED otherVars

\* stopListening() without its clearTimeout: a pending timer stays armed.
StopListeningKeepsTimer ==
    /\ capturing' = FALSE
    /\ isListening' = FALSE
    /\ audioLevel' = 0
    /\ whisperBuffer' = <<>>
    /\ whisperBufferLength' = 0
    /\ UNCHANGED <<sessionWhisperStatus, now, frames, lastSpeechTime,
                   silenceTimeoutRef, timerAt, voskBuffer, voskBufferLength,
                   lastVoskSendTime>>

\* stopListening() emptying whisperBufferRef and leaving its length counter.
StopListeningKeepsLength ==
    /\ capturing' = FALSE
    /\ isListening' = FALSE
    /\ audioLevel' = 0
    /\ whisperBuffer' = <<>>
    /\ timerAt' = -1
    /\ UNCHANGED <<sessionWhisperStatus, now, frames, lastSpeechTime,
                   silenceTimeoutRef, whisperBufferLength, voskBuffer,
                   voskBufferLength, lastVoskSendTime>>

\* stopListening(): what it assigns. clearTimeout cancels the timer and
\* leaves silenceTimeoutRef.current as it is.
StopListeningBody ==
    /\ capturing' = FALSE
    /\ isListening' = FALSE
    /\ audioLevel' = 0
    /\ whisperBuffer' = <<>>
    /\ whisperBufferLength' = 0
    /\ timerAt' = -1
    /\ UNCHANGED <<sessionWhisperStatus, now, frames, lastSpeechTime,
                   silenceTimeoutRef, voskBuffer, voskBufferLength,
                   lastVoskSendTime>>

\* stopListening()
StopListening ==
    /\ isListening
    /\ Control
    /\ StopListeningBody
    /\ UNCHANGED <<displayVars, error, isModelLoading, engineStatus, workerVars>>

\* startListening() calling setIsListening(true) before the capture is
\* acquired, its catch leaving isListening as it is.
StartListeningOptimistic(ok) ==
    /\ ~isListening
    /\ Control
    /\ error' = IF ok THEN "none" ELSE "audio error"
    /\ isListening' = TRUE
    /\ capturing' = ok
    /\ IF ok
       THEN /\ voskBuffer' = <<>>
            /\ voskBufferLength' = 0
            /\ lastVoskSendTime' = 0
            /\ sessionWhisperStatus' = engineStatus.whisper
       ELSE UNCHANGED <<voskBuffer, voskBufferLength, lastVoskSendTime,
                        sessionWhisperStatus>>
    /\ UNCHANGED <<displayVars, isModelLoading, engineStatus, workerVars, now,
                   frames, lastSpeechTime, silenceTimeoutRef, timerAt,
                   whisperBuffer, whisperBufferLength, audioLevel>>

\* startListening(): the capture is acquired and the processor connected
\* (ok), or acquiring it throws.
StartListening(ok) ==
    /\ ~isListening
    /\ Control
    /\ error' = IF ok THEN "none" ELSE "audio error"
    /\ isListening' = ok
    /\ capturing' = ok
    /\ IF ok
       THEN /\ voskBuffer' = <<>>
            /\ voskBufferLength' = 0
            /\ lastVoskSendTime' = 0
            /\ sessionWhisperStatus' = engineStatus.whisper
       ELSE UNCHANGED <<voskBuffer, voskBufferLength, lastVoskSendTime,
                        sessionWhisperStatus>>
    /\ UNCHANGED <<displayVars, isModelLoading, engineStatus, workerVars, now,
                   frames, lastSpeechTime, silenceTimeoutRef, timerAt,
                   whisperBuffer, whisperBufferLength, audioLevel>>

\* reloadModel(): stopListening(), both engines back to loading, and the
\* effect on [retryCount] terminates both workers and creates new ones.
ReloadModel ==
    /\ Control
    /\ StopListeningBody
    /\ isModelLoading' = TRUE
    /\ error' = "none"
    /\ engineStatus' = [vosk |-> "loading", whisper |-> "loading"]
    /\ voskRecognizer' = FALSE
    /\ whisperTranscriber' = FALSE
    /\ voskInit' = "pending"
    /\ whisperInit' = "pending"
    /\ voskInbox' = 0
    /\ voskHeard' = FALSE
    /\ whisperInbox' = 0
    /\ UNCHANGED displayVars

(***************************************************************************)
(* Workers: 'transcribe' requests                                          *)
(***************************************************************************)

\* The vosk worker handles a 'transcribe': the recognizer accepts the
\* waveform, or (no recognizer, or acceptWaveformFloat throws) the worker
\* posts 'error', which the hook's handler records.
VoskWorkerTranscribe(ok) ==
    /\ voskInbox > 0
    /\ voskInit = "done"
    /\ voskInbox' = voskInbox - 1
    /\ IF voskRecognizer /\ ok
       THEN /\ voskHeard' = TRUE
            /\ UNCHANGED <<error, isModelLoading, engineStatus>>
       ELSE /\ voskHeard' = voskHeard
            /\ SetEngineStatus([engineStatus EXCEPT !.vosk = "error"], "vosk error")
    /\ UNCHANGED <<displayVars, isListening, voskRecognizer, whisperTranscriber,
                   voskInit, whisperInit, whisperInbox, audioVars, historyVars,
                   otherVars>>

\* The whisper 'error' handler also clearing the interim text.
WhisperErrorClearsInterim ==
    /\ whisperInbox > 0
    /\ whisperInit = "done"
    /\ RoomInHistory
    /\ whisperInbox' = whisperInbox - 1
    /\ SetEngineStatus([engineStatus EXCEPT !.whisper = "error"], error)
    /\ text' = text
    /\ interimText' = <<>>
    /\ Record("whisper", "error", <<>>)
    /\ UNCHANGED <<isListening, voskRecognizer, whisperTranscriber, voskInit,
                   whisperInit, voskInbox, voskHeard, audioVars>>

\* The whisper worker answers a 'transcribe' with 'error' (no transcriber,
\* or the inference throws); whisperWorker.onmessage, type 'error'
WhisperError ==
    /\ whisperInbox > 0
    /\ whisperInit = "done"
    /\ RoomInHistory
    /\ whisperInbox' = whisperInbox - 1
    /\ SetEngineStatus([engineStatus EXCEPT !.whisper = "error"], error)
    /\ UNCHANGED displayVars
    /\ Record("whisper", "error", <<>>)
    /\ UNCHANGED <<isListening, voskRecognizer, whisperTranscriber, voskInit,
                   whisperInit, voskInbox, voskHeard, audioVars>>

(***************************************************************************)
(* FastPathBuffer and AccuratePathBuffer: the audio callback               *)
(***************************************************************************)

\* Sum of the chunks' lengths (halving the buffer, for buffers of 30 s).
RECURSIVE Samples(_)
Samples(buf) ==
    IF buf = <<>> THEN 0
    ELSE IF Len(buf) = 1 THEN buf[1].n
    ELSE Samples(SubSeq(buf, 1, Len(buf) \div 2))
         + Samples(SubSeq(buf, Len(buf) \div 2 + 1, Len(buf)))

\* The overlap loop without its branch for the chunk that is cut: only
\* whole chunks are kept.
RECURSIVE KeepWholeChunks(_, _)
KeepWholeChunks(buf, tempOffset) ==
    IF buf = <<>> THEN <<>>
    ELSE LET b == buf[1]
             rest == KeepWholeChunks(Tail(buf), tempOffset - b.n)
         IN  IF tempOffset <= 0 THEN <<b>> \o rest ELSE rest

\* The loop that keeps the trailing overlap of voskBuffer: chunks are
\* dropped or cut until tempOffset samples are gone.
RECURSIVE KeepOverlap(_, _)
KeepOverlap(buf, tempOffset) ==
    IF buf = <<>> THEN <<>>
    ELSE LET b == buf[1]
             rest == KeepOverlap(Tail(buf), tempOffset - b.n)
         IN  IF tempOffset <= 0 THEN <<b>> \o rest
             ELSE IF tempOffset < b.n
                  THEN <<[f |-> b.f, lo |-> b.lo + tempOffset, n |-> b.n - tempOffset]>>
                       \o rest
             ELSE rest

\* The trim loop removing the newest chunks (pop) instead of the oldest.
RECURSIVE TrimNewest(_, _)
TrimNewest(buf, trimTarget) ==
    IF buf # <<>> /\ 0 < trimTarget
    THEN TrimNewest(SubSeq(buf, 1, Len(buf) - 1), trimTarget - buf[Len(buf)].n)
    ELSE buf

\* The loop that trims the oldest chunks of whisperBufferRef while fewer
\* than trimTarget samples have been removed.
RECURSIVE TrimOldest(_, _)
TrimOldest(buf, trimTarget) ==
    IF buf # <<>> /\ 0 < trimTarget
    THEN TrimOldest(Tail(buf), trimTarget - buf[1].n)
    ELSE buf

\* Math.min(100, Math.round(rms * 1000))
Level(rms) == IF (rms + 5) \div 10 > 100 THEN 100 ELSE (rms + 5) \div 10

\* Speech callbacks that make up "at least 2 s of speech".
UtteranceFrames == (2 * SampleRate + FrameSize - 1) \div FrameSize

\* The silence timeout forgotten on speech (the ref set to null) without
\* clearTimeout: the timer stays armed.
ForgetSilenceTimeout(hasSpeech, ref, at) ==
    IF hasSpeech THEN [ref |-> FALSE, at |-> at] ELSE [ref |-> ref, at |-> at]

\* On speech, a pending silence timeout is cleared and the ref set to null:
\* silenceTimeoutRef.current and the time the timer fires (-1: none) after it.
ClearSilenceTimeout(hasSpeech, ref, at) ==
    IF hasSpeech /\ ref THEN [ref |-> FALSE, at |-> -1] ELSE [ref |-> ref, at |-> at]

\* shouldSendToVosk without the minimum interval.
ShouldSendToVoskAnyTime(vLen, nowMs, lastSend) == vLen >= VOSK_CHUNK_SIZE

\* shouldSendToVosk
ShouldSendToVosk(vLen, nowMs, lastSend) ==
    /\ vLen >= VOSK_CHUNK_SIZE
    /\ (nowMs - lastSend) >= VOSK_MIN_INTERVAL

\* processor.onaudioprocess for a callback whose samples have the given RMS
\* and that runs gap ms after the one before it. Callbacks and the settle
\* timer run in the order of their times.
OnAudioProcess(rms, gap) ==
    /\ capturing
    /\ voskInbox < MaxVoskInbox
    /\ timerAt = -1 \/ timerAt >= now + gap
    /\ frames' = frames + 1
    /\ now' = now + gap
    /\ IF isModelLoading
       THEN /\ lastCallback' = [lastCallback EXCEPT !.processed = FALSE, !.rms = rms]
            /\ UNCHANGED <<lastSpeechTime, silenceTimeoutRef, timerAt, whisperBuffer,
                           whisperBufferLength, voskBuffer, voskBufferLength,
                           lastVoskSendTime, audioLevel, voskInbox, voskSent>>
       ELSE LET hasSpeech == rms > SPEECH_THRESHOLD
                chunk == [f |-> frames', lo |-> 0, n |-> FrameSize]
                onSpeech == ClearSilenceTimeout(hasSpeech, silenceTimeoutRef, timerAt)
                timeoutRef1 == onSpeech.ref
                timerAt1 == onSpeech.at
                lastSpeech1 == IF hasSpeech THEN now' ELSE lastSpeechTime
                vBuf == Append(voskBuffer, chunk)
                vLen == voskBufferLength + chunk.n
                wBuf == Append(whisperBuffer, chunk)
                wLen == whisperBufferLength + chunk.n
                shouldSendToVosk == ShouldSendToVosk(vLen, now', lastVoskSendTime)
                send == shouldSendToVosk /\ rms > VoskRmsFloor
                arm ==
                    /\ ~hasSpeech
                    /\ wLen > MinArmSamples
                    /\ (now' - lastSpeech1) > WHISPER_SILENCE_THRESHOLD
                    /\ ~timeoutRef1
            IN  /\ audioLevel' = Level(rms)
                /\ lastSpeechTime' = lastSpeech1
                /\ lastCallback' =
                       [processed |-> TRUE, rms |-> rms, armed |-> timerAt # -1,
                        dispatched |-> whisperSent.count]
                /\ IF send
                   THEN /\ voskInbox' = voskInbox + 1
                        /\ lastVoskSendTime' = now'
                        /\ IF vLen > OverlapSamples
                           THEN /\ voskBuffer' = KeepOverlap(vBuf, vLen - OverlapSamples)
                                /\ voskBufferLength' =
                                       Samples(KeepOverlap(vBuf, vLen - OverlapSamples))
                           ELSE /\ voskBuffer' = <<>>
                                /\ voskBufferLength' = 0
                        /\ voskSent' =
                               IF recording
                               THEN [at |-> now', window |-> vBuf,
                                     kept |-> voskBuffer',
                                     prevAt |-> IF voskSent.window = <<>> THEN -1
                                                ELSE voskSent.at,
                                     prevWindow |-> voskSent.window]
                               ELSE voskSent
                   ELSE /\ voskBuffer' = vBuf
                        /\ voskBufferLength' = vLen
                        /\ UNCHANGED <<voskInbox, voskSent, lastVoskSendTime>>
                /\ silenceTimeoutRef' = (timeoutRef1 \/ arm)
                /\ timerAt' = IF arm THEN now' + SettleMs ELSE timerAt1
                /\ IF wLen > MaxWhisperSamples
                   THEN /\ whisperBuffer' = TrimOldest(wBuf, wLen - MaxWhisperSamples)
                        /\ whisperBufferLength' =
                               wLen - (Samples(wBuf)
                                       - Samples(TrimOldest(wBuf, wLen - MaxWhisperSamples)))
                   ELSE /\ whisperBuffer' = wBuf
                        /\ whisperBufferLength' = wLen
    /\ UNCHANGED <<displayVars, hookVars, voskRecognizer, whisperTranscriber,
                   voskInit, whisperInit, voskHeard, whisperInbox, capturing,
                   sessionWhisperStatus, whisperSent, controls, recording, events,
                   commits, otherVars>>

\* An audio callback FrameMs after the one before it.
AudioProcess(rms) ==
    /\ frames < MaxFrames
    /\ OnAudioProcess(rms, FrameMs)

\* The settle timer fires: sendToWhisper(), then silenceTimeoutRef.current = null.
SilenceTimerFires ==
    /\ timerAt # -1
    /\ timerAt <= now + FrameMs
    /\ timerAt' = -1
    /\ silenceTimeoutRef' = FALSE
    /\ IF whisperBufferLength < MinWhisperSamples \/ sessionWhisperStatus # "ready"
       THEN UNCHANGED <<whisperInbox, whisperSent, whisperBuffer, whisperBufferLength>>
       ELSE /\ whisperInbox' = whisperInbox + 1
            /\ whisperSent' = [count |-> whisperSent.count + 1,
                               at |-> now, window |-> whisperBuffer,
                               speechAt |-> lastSpeechTime,
                               prevSpeechAt |-> whisperSent.speechAt]
            /\ whisperBuffer' = <<>>
            /\ whisperBufferLength' = 0
    /\ UNCHANGED <<displayVars, hookVars, voskRecognizer, whisperTranscriber,
                   voskInit, whisperInit, voskInbox, voskHeard, capturing,
                   sessionWhisperStatus, now, frames, lastSpeechTime, voskBuffer,
                   voskBufferLength, lastVoskSendTime, audioLevel, voskSent,
                   lastCallback, controls, recording, events, commits, otherVars>>

(***************************************************************************)
(* Specification of the hook: from mount, every handler                    *)
(***************************************************************************)

Next ==
    \/ \E ok \in BOOLEAN : VoskInitDone(ok)
    \/ \E ok \in BOOLEAN : WhisperInitDone(ok)
    \/ \E ok \in BOOLEAN : StartListening(ok)
    \/ StopListening
    \/ ReloadModel
    \/ \E rms \in RmsLevels : AudioProcess(rms)
    \/ SilenceTimerFires
    \/ \E ok \in BOOLEAN : VoskWorkerTranscribe(ok)
    \/ WhisperError
    \/ \E t \in SessionTexts : VoskPartial(t)
    \/ \E t \in SessionTexts : VoskResult(t)
    \/ \E t \in SessionTexts : WhisperResult(t)

Spec == Init /\ [][Next]_vars

\* The hook with workers that answer: each worker, once sent 'init', posts
\* 'ready' or 'error' (its init() ends in one or the other).
SpecLive ==
    /\ Init
    /\ [][Next]_vars
    /\ WF_vars(\E ok \in BOOLEAN : VoskInitDone(ok))
    /\ WF_vars(\E ok \in BOOLEAN : WhisperInitDone(ok))

(***************************************************************************)
(* Session states: a session that has just started (both workers answered *)
(* 'ready', startListening() connected the processor), and the same        *)
(* session after its first callbacks.                                      *)
(*                                                                         *)
(* Specification of the audio path: after an utterance, the session is fed *)
(* callbacks of silence and speech at the nominal rate. The whisper worker *)
(* answers with an empty text whenever it likes.                           *)
(***************************************************************************)

SessionStarted(keepHistory) ==
    /\ text = <<>>
    /\ interimText = <<>>
    /\ isListening = TRUE
    /\ error = "none"
    /\ isModelLoading = FALSE
    /\ engineStatus = [vosk |-> "ready", whisper |-> "ready"]
    /\ voskRecognizer = TRUE
    /\ whisperTranscriber = TRUE
    /\ voskInit = "done"
    /\ whisperInit = "done"
    /\ voskInbox = 0
    /\ voskHeard = FALSE
    /\ whisperInbox = 0
    /\ capturing = TRUE
    /\ sessionWhisperStatus = "ready"
    /\ now = StartTime
    /\ frames = 0
    /\ lastSpeechTime = 0
    /\ silenceTimeoutRef = FALSE
    /\ timerAt = -1
    /\ whisperBuffer = <<>>
    /\ whisperBufferLength = 0
    /\ voskBuffer = <<>>
    /\ voskBufferLength = 0
    /\ lastVoskSendTime = 0
    /\ audioLevel = 0
    /\ whisperSent = NoWhisperSent
    /\ voskSent = NoVoskSent
    /\ lastCallback = NoCallback
    /\ controls = 1
    /\ recording = keepHistory
    /\ events = <<>>
    /\ commits = <<text>>
    /\ OthersMounted

\* The session after its first n (at least 2) callbacks, all of them speech,
\* each window handled by the vosk worker before the next callback: every
\* callback from the second on posted a window and kept its last 50 ms.
AfterSpeech(n) ==
    /\ text = <<>>
    /\ interimText = <<>>
    /\ isListening = TRUE
    /\ error = "none"
    /\ isModelLoading = FALSE
    /\ engineStatus = [vosk |-> "ready", whisper |-> "ready"]
    /\ voskRecognizer = TRUE
    /\ whisperTranscriber = TRUE
    /\ voskInit = "done"
    /\ whisperInit = "done"
    /\ voskInbox = 0
    /\ voskHeard = TRUE
    /\ whisperInbox = 0
    /\ capturing = TRUE
    /\ sessionWhisperStatus = "ready"
    /\ now = StartTime + n * FrameMs
    /\ frames = n
    /\ lastSpeechTime = StartTime + n * FrameMs
    /\ silenceTimeoutRef = FALSE
    /\ timerAt = -1
    /\ whisperBuffer = [k \in 1..n |-> [f |-> k, lo |-> 0, n |-> FrameSize]]
    /\ whisperBufferLength = n * FrameSize
    /\ voskBuffer =
           <<[f |-> n, lo |-> FrameSize - OverlapSamples, n |-> OverlapSamples]>>
    /\ voskBufferLength = OverlapSamples
    /\ lastVoskSendTime = StartTime + n * FrameMs
    /\ audioLevel = Level(MaxOf(RmsLevels))
    /\ whisperSent = NoWhisperSent
    /\ voskSent = NoVoskSent
    /\ lastCallback =
           [processed |-> TRUE, rms |-> MaxOf(RmsLevels), armed |-> FALSE,
            dispatched |-> 0]
    /\ controls = 1
    /\ recording = FALSE
    /\ events = <<>>
    /\ commits = <<text>>
    /\ OthersMounted

\* An utterance: at least 2 s of speech callbacks have just been heard.
InitAudio == AfterSpeech(UtteranceFrames)

\* An audio callback of the audio path.
AudioFrame(rms) ==
    /\ frames < MaxAudioFrames
    /\ OnAudioProcess(rms, FrameMs)

NextAudio ==
    \/ \E rms \in RmsLevels : AudioFrame(rms)
    \/ SilenceTimerFires
    \/ VoskWorkerTranscribe(TRUE)
    \/ WhisperResult(Empty)

SpecAudio == InitAudio /\ [][NextAudio]_vars

(***************************************************************************)
(* Specification of the fast path: the same session start, fed callbacks   *)
(* that run at the nominal rate or late and close together.                *)
(***************************************************************************)

\* ms between two successive callbacks.
FrameGaps == {ShortGap, FrameMs}

\* An audio callback of the fast path.
JitteredFrame(rms, gap) ==
    /\ frames < MaxFastFrames
    /\ OnAudioProcess(rms, gap)

\* RMS of the callbacks of the fast path: also quiet sound (0.0005), above
\* the floor of the Vosk dispatch (0.0002) and below the speech threshold
\* (0.001).
FastRmsLevels == RmsLevels \cup {5}

NextFast ==
    \/ \E rms \in FastRmsLevels, gap \in FrameGaps : JitteredFrame(rms, gap)
    \/ VoskWorkerTranscribe(TRUE)

InitFast == SessionStarted(TRUE)

SpecFast == InitFast /\ [][NextFast]_vars

(***************************************************************************)
(* Specification of the buffer cap: someone has been speaking without a    *)
(* pause since the session started, and goes on or pauses.                 *)
(***************************************************************************)

InitCap == AfterSpeech(CapStartFrames)

\* An audio callback near the cap.
CapFrame(rms) ==
    /\ frames < MaxCapFrames
    /\ OnAudioProcess(rms, FrameMs)

NextCap ==
    \/ \E rms \in RmsLevels : CapFrame(rms)
    \/ SilenceTimerFires
    \/ VoskWorkerTranscribe(TRUE)
    \/ WhisperResult(Empty)

SpecCap == InitCap /\ [][NextCap]_vars

(***************************************************************************)
(* Specification of a later session: both workers answered 'ready', a      *)
(* first session of silence posted one window to the whisper worker, the   *)
(* inference failed (the worker answered 'error'), the user stopped and    *)
(* started again. The new session is fed callbacks at the nominal rate.    *)
(***************************************************************************)

\* Callbacks after which a silent session arms the settle timer (more than
\* 2 s buffered), and after which the timer fires.
ArmFrames == MinArmSamples \div FrameSize + 1

FireFrames == ArmFrames + SettleMs \div FrameMs

InitRetry ==
    /\ text = <<>>
    /\ interimText = <<>>
    /\ isListening = TRUE
    /\ error = "none"
    /\ isModelLoading = FALSE
    /\ engineStatus = [vosk |-> "ready", whisper |-> "error"]
    /\ voskRecognizer = TRUE
    /\ whisperTranscriber = TRUE
    /\ voskInit = "done"
    /\ whisperInit = "done"
    /\ voskInbox = 0
    /\ voskHeard = FALSE
    /\ whisperInbox = 0
    /\ capturing = TRUE
    /\ sessionWhisperStatus = "error"
    /\ now = StartTime + FireFrames * FrameMs
    /\ frames = FireFrames
    /\ lastSpeechTime = 0
    /\ silenceTimeoutRef = FALSE
    /\ timerAt = -1
    /\ whisperBuffer = <<>>
    /\ whisperBufferLength = 0
    /\ voskBuffer = <<>>
    /\ voskBufferLength = 0
    /\ lastVoskSendTime = 0
    /\ audioLevel = 0
    /\ whisperSent =
           [count |-> 1, at |-> StartTime + FireFrames * FrameMs,
            window |-> [k \in 1..FireFrames |-> [f |-> k, lo |-> 0, n |-> FrameSize]],
            speechAt |-> 0, prevSpeechAt |-> 0]
    /\ voskSent = NoVoskSent
    /\ lastCallback =
           [processed |-> TRUE, rms |-> 0, armed |-> TRUE, dispatched |-> 0]
    /\ controls = 3
    /\ recording = FALSE
    /\ events = <<>>
    /\ commits = <<text>>
    /\ OthersMounted

\* An audio callback of the later session.
RetryFrame(rms) ==
    /\ frames < MaxRetryFrames
    /\ OnAudioProcess(rms, FrameMs)

NextRetry ==
    \/ \E rms \in RmsLevels : RetryFrame(rms)
    \/ SilenceTimerFires
    \/ VoskWorkerTranscribe(TRUE)

SpecRetry == InitRetry /\ [][NextRetry]_vars

(***************************************************************************)
(* Specification of a session started after a stop() that found the settle *)
(* timer pending: both workers answered 'ready', a first session of        *)
(* silence armed the timer, the user stopped before it fired and started   *)
(* again.                                                                  *)
(***************************************************************************)

InitRestart ==
    /\ text = <<>>
    /\ interimText = <<>>
    /\ isListening = TRUE
    /\ error = "none"
    /\ isModelLoading = FALSE
    /\ engineStatus = [vosk |-> "ready", whisper |-> "ready"]
    /\ voskRecognizer = TRUE
    /\ whisperTranscriber = TRUE
    /\ voskInit = "done"
    /\ whisperInit = "done"
    /\ voskInbox = 0
    /\ voskHeard = FALSE
    /\ whisperInbox = 0
    /\ capturing = TRUE
    /\ sessionWhisperStatus = "ready"
    /\ now = StartTime + ArmFrames * FrameMs
    /\ frames = ArmFrames
    /\ lastSpeechTime = 0
    /\ silenceTimeoutRef = TRUE
    /\ timerAt = -1
    /\ whisperBuffer = <<>>
    /\ whisperBufferLength = 0
    /\ voskBuffer = <<>>
    /\ voskBufferLength = 0
    /\ lastVoskSendTime = 0
    /\ audioLevel = 0
    /\ whisperSent = NoWhisperSent
    /\ voskSent = NoVoskSent
    /\ lastCallback =
           [processed |-> TRUE, rms |-> 0, armed |-> FALSE, dispatched |-> 0]
    /\ controls = 3
    /\ recording = FALSE
    /\ events = <<>>
    /\ commits = <<text>>
    /\ OthersMounted

SpecRestart == InitRestart /\ [][NextRetry]_vars

(***************************************************************************)
(* Specification of the reconciler: a session in progress (both workers    *)
(* answered 'ready', capture running, the recogniser fed, windows awaiting *)
(* Whisper: sendToWhisper does not wait for the previous answer), to which *)
(* the engines deliver their results in every order.                       *)
(***************************************************************************)

InitReconciler ==
    /\ text = <<>>
    /\ interimText = <<>>
    /\ isListening = TRUE
    /\ error = "none"
    /\ isModelLoading = FALSE
    /\ engineStatus = [vosk |-> "ready", whisper |-> "ready"]
    /\ voskRecognizer = TRUE
    /\ whisperTranscriber = TRUE
    /\ voskInit = "done"
    /\ whisperInit = "done"
    /\ voskInbox = 0
    /\ voskHeard = TRUE
    /\ whisperInbox = MaxEvents
    /\ capturing = TRUE
    /\ sessionWhisperStatus = "ready"
    /\ now = StartTime
    /\ frames = 0
    /\ lastSpeechTime = StartTime
    /\ silenceTimeoutRef = FALSE
    /\ timerAt = -1
    /\ whisperBuffer = <<>>
    /\ whisperBufferLength = 0
    /\ voskBuffer = <<>>
    /\ voskBufferLength = 0
    /\ lastVoskSendTime = StartTime
    /\ audioLevel = 0
    /\ whisperSent = NoWhisperSent
    /\ voskSent = NoVoskSent
    /\ lastCallback = NoCallback
    /\ controls = 0
    /\ recording = TRUE
    /\ events = <<>>
    /\ commits = <<text>>
    /\ OthersMounted

NextReconciler ==
    \/ \E t \in PartialTexts : VoskPartial(t)
    \/ \E t \in FastTexts : VoskResult(t)
    \/ \E t \in AccurateTexts : WhisperResult(t)
    \/ WhisperError
    \/ StopListening

SpecReconciler == InitReconciler /\ [][NextReconciler]_vars


(***************************************************************************)
(* Properties of the reconciler, over the history of delivered events:     *)
(* event i found commits[i] committed and left commits[i + 1].             *)
(***************************************************************************)

Delivered == 1..Len(events)

\* The text a handler works on: resultText.trim().
Clean(i) == Trim(events[i].text)

IsFastFinal(i) == events[i].engine = "vosk" /\ events[i].kind = "final"

IsFastPartial(i) == events[i].engine = "vosk" /\ events[i].kind = "partial"

IsAccurateFinal(i) == events[i].engine = "whisper" /\ events[i].kind = "final"

\* interimText before event i.
InterimBefore(i) == IF i = 1 THEN <<>> ELSE events[i - 1].interim

\* The number of words at the end of prev that new begins with (the longest).
OverlapWords(prev, new) ==
    LET p == Split(prev)
        n == Split(new)
        ks == {k \in 1..Len(n) :
                  /\ k <= Len(p)
                  /\ SubSeq(p, Len(p) - k + 1, Len(p)) = SubSeq(n, 1, k)}
    IN  IF prev = <<>> \/ new = <<>> \/ ks = {} THEN 0 ELSE MaxOf(ks)

\* prev followed by the words of new after its first k words.
AppendAfter(prev, new, k) ==
    LET rest == SubSeq(Split(new), k + 1, Len(Split(new)))
    IN  IF rest = <<>> THEN prev ELSE prev \o <<" ">> \o Join(rest)

\* C3: a Fast Final that begins with the words that end committedText is
\* merged with the overlapping words kept once: committedText becomes the
\* old text followed by the Final's words after the overlap.
C3_OverlapAbsorbed ==
    \A i \in Delivered :
        (IsFastFinal(i) /\ OverlapWords(commits[i], Clean(i)) > 0)
            => commits[i + 1] =
                   AppendAfter(commits[i], Clean(i), OverlapWords(commits[i], Clean(i)))

\* The words of prev (in their own case) after the last case-insensitive
\* occurrence of word w.
WordsAfterLast(prev, w) ==
    SliceFrom(Split(prev), LastIndexOf(Split(ToLowerCase(prev)), w) + 1)

\* The last word of an Accurate text, lower-cased.
LastWordOf(clean) == Split(ToLowerCase(clean))[Len(Split(ToLowerCase(clean)))]

\* Word w occurs in prev (case-insensitively) before prev's final word.
OccursBeforeFinalWord(prev, w) ==
    \E k \in 1..(Len(Split(prev)) - 1) : Split(ToLowerCase(prev))[k] = w

\* C4: an Accurate Final whose last word occurs in committedText before the
\* final word leaves the Accurate text followed by the words of the old
\* committedText after the last occurrence of that word.
C4_AccurateKeepsTail ==
    \A i \in Delivered :
        (/\ IsAccurateFinal(i)
         /\ Clean(i) # <<>>
         /\ commits[i] # <<>>
         /\ OccursBeforeFinalWord(commits[i], LastWordOf(Clean(i))))
            => LET tail == WordsAfterLast(commits[i], LastWordOf(Clean(i)))
               IN  commits[i + 1] =
                       IF tail = <<>> THEN Clean(i)
                       ELSE Clean(i) \o <<" ">> \o Join(tail)

\* Every delivered event is a non-empty Fast Final, the first found nothing
\* committed, and none begins with words that end the text committed before it.
FastFinalsWithoutOverlap ==
    /\ commits[1] = <<>>
    /\ \A i \in Delivered :
          /\ IsFastFinal(i)
          /\ Clean(i) # <<>>
          /\ OverlapWords(commits[i], Clean(i)) = 0

NeitherLongerNorContaining(i) ==
    /\ RatioDen * Len(Clean(i)) <= RatioNum * Len(commits[i])
    /\ ~Includes(ToLowerCase(Clean(i)), SliceLast(ToLowerCase(commits[i]), SuffixWindow))

C6_FastFinalIdempotent ==
    \A i \in Delivered :
        (i > 1 /\ IsFastFinal(i) /\ IsFastFinal(i - 1)
               /\ events[i].text = events[i - 1].text)
            => commits[i + 1] = commits[i]

\* C7: the same Accurate Final delivered a second time in succession leaves
\* committedText as the first delivery left it.
C7_AccurateFinalIdempotent ==
    \A i \in Delivered :
        (i > 1 /\ IsAccurateFinal(i) /\ IsAccurateFinal(i - 1)
               /\ events[i].text = events[i - 1].text)
            => commits[i + 1] = commits[i]

\* Witness of C7: an Accurate Final arrived twice in succession, the first
\* time keeping Fast text that followed the matched word.
C7_Witness ==
    \E i \in Delivered :
        /\ i > 1 /\ IsAccurateFinal(i) /\ IsAccurateFinal(i - 1)
        /\ events[i].text = events[i - 1].text
        /\ Clean(i) # <<>>
        /\ commits[i - 1] # <<>>
        /\ Len(commits[i]) > Len(Clean(i))
        /\ commits[i + 1] # commits[i - 1]

\* What the handler of a Final does to the committed text.
Reconcile(prev, engine, resultText) ==
    IF Trim(resultText) = <<>> THEN prev
    ELSE IF engine = "vosk" THEN FastMerge(prev, Trim(resultText))
    ELSE AccurateMerge(prev, Trim(resultText))

\* C8: a Fast Final and an Accurate Final with the same text (the same
\* audio), delivered one after the other, leave the committedText that the
\* opposite order leaves, and exactly that text when nothing was committed.
C8_OrderIndependent ==
    \A i \in Delivered :
        (/\ i > 1
         /\ events[i].kind = "final" /\ events[i - 1].kind = "final"
         /\ events[i].engine # events[i - 1].engine
         /\ Clean(i) = Clean(i - 1)
         /\ Clean(i) # <<>>)
            => /\ commits[i + 1] =
                      Reconcile(Reconcile(commits[i - 1], events[i].engine, events[i].text),
                                events[i - 1].engine, events[i - 1].text)
               /\ commits[i - 1] = <<>> => commits[i + 1] = Clean(i)

\* C9 as stated: a Fast Partial with non-empty text sets interimText to that
\* text and leaves committedText unchanged.
C9_PartialSetsInterim ==
    \A i \in Delivered :
        (IsFastPartial(i) /\ events[i].text # <<>>)
            => /\ events[i].interim = events[i].text
               /\ commits[i + 1] = commits[i]

\* C9 (amended): a Fast Partial whose text is non-empty after trimming sets
\* interimText to the trimmed text and leaves committedText unchanged.
C9_PartialSetsTrimmedInterim ==
    \A i \in Delivered :
        (IsFastPartial(i) /\ Clean(i) # <<>>)
            => /\ events[i].interim = Clean(i)
               /\ commits[i + 1] = commits[i]

\* Witness of C9: a Fast Partial with padded text arrived while text was
\* committed and another interim text was shown.
C9_Witness ==
    \E i \in Delivered :
        /\ IsFastPartial(i)
        /\ Clean(i) # <<>>
        /\ Clean(i) # events[i].text
        /\ commits[i] # <<>>
        /\ InterimBefore(i) # <<>>
        /\ InterimBefore(i) # Clean(i)

\* C10: after an event that changed committedText, interimText is empty.
C10_InterimClearedOnCommit ==
    \A i \in Delivered :
        (events[i].kind = "final" /\ commits[i + 1] # commits[i])
            => events[i].interim = <<>>

\* C2: an event delivered after stop() leaves committedText and interimText
\* as they were.
C2_LateResultIgnored ==
    \A i \in Delivered :
        ~events[i].listening
            => /\ commits[i + 1] = commits[i]
               /\ events[i].interim = InterimBefore(i)

\* s begins with p.
IsPrefix(p, s) == Len(p) <= Len(s) /\ SubSeq(s, 1, Len(p)) = p

\* The event delivered last. Every delivered event is the latest one in
\* the state its delivery reaches, so a property of the latest event in
\* every reachable state is a property of every event.
Latest == {Len(events)} \ {0}

\* C11: a Fast Final only appends: the committedText before it is a prefix
\* of the committedText after it.
C11_FastFinalOnlyAppends ==
    \A i \in Latest : IsFastFinal(i) => IsPrefix(commits[i], commits[i + 1])

IsEngineError(i) == events[i].kind = "error"

\* C12: no recognition event (Fast Partial, Fast Final, Accurate Final,
\* engine error) that finds committedText non-empty leaves it empty.
C12_NeverEmptiedAgain ==
    \A i \in Latest : commits[i] # <<>> => commits[i + 1] # <<>>

\* Witness of C12: with text committed, an Accurate Final with empty text
\* and an engine error were delivered.
C12_Witness ==
    /\ \E i \in Delivered :
          IsAccurateFinal(i) /\ Clean(i) = <<>> /\ commits[i] # <<>>
    /\ \E i \in Delivered : IsEngineError(i) /\ commits[i] # <<>>

\* Word w is one of the words of prev, compared as the handler compares
\* them (lower-cased).
OccursIn(prev, w) ==
    LET words == Split(ToLowerCase(prev))
    IN  \E k \in 1..Len(words) : words[k] = w

\* C13: an Accurate Final whose last word does not occur in committedText
\* leaves exactly the Accurate text committed.
C13_UnmatchedAccurateReplaces ==
    \A i \in Latest :
        (/\ IsAccurateFinal(i)
         /\ Clean(i) # <<>>
         /\ ~OccursIn(commits[i], LastWordOf(Clean(i))))
            => commits[i + 1] = Clean(i)

\* Witness of C13: an Accurate Final whose last word was not among the
\* committed words replaced a committed text of several words.
C13_Witness ==
    \E i \in Delivered :
        /\ IsAccurateFinal(i)
        /\ Clean(i) # <<>>
        /\ Len(Split(commits[i])) > 1
        /\ ~OccursIn(commits[i], LastWordOf(Clean(i)))
        /\ commits[i + 1] = Clean(i)


(***************************************************************************)
(* Properties of the audio path                                            *)
(***************************************************************************)

\* A callback with RMS above SPEECH_THRESHOLD has run: only such a callback
\* assigns lastSpeechTimeRef, which starts at 0.
SpeechSeen == lastSpeechTime # 0

\* C1: a window is posted to the whisper worker only after a callback with
\* RMS above the speech threshold has been seen.
C1_NoSilenceOnlyDispatch == whisperSent.count > 0 => SpeechSeen

\* C14: after an utterance (at least 2 s of speech callbacks) and the
\* silence that follows it, one window is posted to the whisper worker; a
\* further window is posted only after new speech was heard, and right after
\* a dispatch (before the next callback) the Whisper buffer is empty.
C14_OneDispatchPerUtterance ==
    /\ whisperSent.count >= 2 => whisperSent.speechAt > whisperSent.prevSpeechAt
    /\ (whisperSent.count > 0 /\ whisperSent.at = now)
           => (whisperBuffer = <<>> /\ whisperBufferLength = 0)

\* The latest callback was processed, was speech, and found the settle timer
\* armed.
SpeechWhileArmed ==
    /\ lastCallback.processed
    /\ lastCallback.rms > SPEECH_THRESHOLD
    /\ lastCallback.armed

\* C15: a speech callback that finds the settle timer armed cancels it: the
\* timer is gone, nothing was posted to the whisper worker since, and
\* lastSpeechTime is the time of that callback.
C15_SpeechCancelsTimer ==
    SpeechWhileArmed
        => /\ timerAt = -1
           /\ ~silenceTimeoutRef
           /\ whisperSent.count = lastCallback.dispatched
           /\ lastSpeechTime = now

\* Witness of C15: after the utterance and a silence long enough to arm the
\* timer, speech resumed before the timer fired.
C15_Witness ==
    /\ SpeechWhileArmed
    /\ frames > UtteranceFrames
    /\ whisperBufferLength > MinArmSamples
    /\ whisperSent.count = 0

\* C17: at most one window posted to the whisper worker awaits its result.
C17_OneAccurateInFlight == whisperInbox <= 1

\* No window was posted to the whisper worker since the latest callback.
AfterCallback == whisperSent.count = 0 \/ whisperSent.at # now

\* C16: after every callback the Whisper buffer holds at most 30 s of audio
\* (its length being the sum of its chunks), its chunks are consecutive
\* callbacks and the last of them is the newest callback: what was removed
\* is the oldest audio.
C16_AccurateBufferCapped ==
    /\ whisperBufferLength <= MaxWhisperSamples
    /\ Samples(whisperBuffer) = whisperBufferLength
    /\ AfterCallback
           => /\ whisperBuffer # <<>>
              /\ whisperBuffer[Len(whisperBuffer)]
                     = [f |-> frames, lo |-> 0, n |-> FrameSize]
    /\ \A k \in 1..(Len(whisperBuffer) - 1) :
          whisperBuffer[k + 1].f = whisperBuffer[k].f + 1

\* Witness of C16: with no dispatch, the oldest callbacks have been removed
\* from a buffer that is full to within one callback of the cap.
C16_Witness ==
    /\ whisperSent.count = 0
    /\ whisperBuffer # <<>>
    /\ whisperBuffer[1].f > 2
    /\ whisperBufferLength > MaxWhisperSamples - FrameSize

\* The last n samples of a buffer, read from its end.
RECURSIVE TailSamples(_, _)
TailSamples(buf, n) ==
    IF n <= 0 \/ buf = <<>> THEN <<>>
    ELSE LET b == buf[Len(buf)]
         IN  IF b.n >= n THEN <<[f |-> b.f, lo |-> b.lo + b.n - n, n |-> n]>>
             ELSE TailSamples(SubSeq(buf, 1, Len(buf) - 1), n - b.n) \o <<b>>

\* The first n samples of a buffer.
RECURSIVE HeadSamples(_, _)
HeadSamples(buf, n) ==
    IF n <= 0 \/ buf = <<>> THEN <<>>
    ELSE LET b == buf[1]
         IN  IF b.n >= n THEN <<[f |-> b.f, lo |-> b.lo, n |-> n]>>
             ELSE <<b>> \o HeadSamples(Tail(buf), n - b.n)

\* C18: two consecutive windows are posted to the vosk worker at least
\* VOSK_MIN_INTERVAL ms apart.
C18_MinDispatchInterval ==
    voskSent.prevAt # -1 => voskSent.at - voskSent.prevAt >= VOSK_MIN_INTERVAL

\* Witness of C18: callbacks came closer together than the interval and the
\* next window was held back until the interval had passed.
C18_Witness ==
    /\ voskSent.prevAt # -1
    /\ voskSent.at - voskSent.prevAt < FrameMs
    /\ Len(voskSent.window) > 2

\* C19: within a session, right after a window is posted to the vosk worker
\* voskBuffer holds exactly the window's last OverlapSamples samples in
\* order, and each window begins with the last OverlapSamples samples of
\* the window before it.
C19_OverlapCarried ==
    /\ voskSent.window # <<>>
           => /\ Samples(voskSent.kept) = OverlapSamples
              /\ voskSent.kept = TailSamples(voskSent.window, OverlapSamples)
    /\ voskSent.prevAt # -1
           => HeadSamples(voskSent.window, OverlapSamples)
                  = TailSamples(voskSent.prevWindow, OverlapSamples)

\* Witness of C19: a window of several callbacks followed another window.
C19_Witness ==
    /\ voskSent.prevAt # -1
    /\ Len(voskSent.window) > 2
    /\ Len(voskSent.prevWindow) > 2

\* C20: after a callback below the speech threshold, voskBuffer is shorter
\* than the target window: a buffer that reached VOSK_CHUNK_SIZE in silence
\* was trimmed back to the overlap.
C20_QuietBufferTrimmed ==
    (lastCallback.processed /\ lastCallback.rms <= SPEECH_THRESHOLD)
        => voskBufferLength < VOSK_CHUNK_SIZE

(***************************************************************************)
(* Properties of the engine health tracker, over the steps of the hook     *)
(***************************************************************************)

Engines == {"vosk", "whisper"}

OtherEngine(e) == IF e = "vosk" THEN "whisper" ELSE "vosk"

\* A window is posted to the vosk worker, to the whisper worker.
VoskDispatched == voskInbox' > voskInbox

WhisperDispatched == whisperInbox' > whisperInbox

\* C21: a window is posted to a worker only while that engine's status is
\* "ready": never to an engine that is loading or in error.
C21_DispatchOnlyToReady ==
    [][/\ VoskDispatched => engineStatus.vosk = "ready"
       /\ WhisperDispatched => engineStatus.whisper = "ready"]_vars

\* An audio callback ran.
CallbackRan == frames' = frames + 1

AnyLoading == engineStatus.vosk = "loading" \/ engineStatus.whisper = "loading"

\* C22: a callback that runs while an engine is loading appends its frame to
\* both buffers (nothing is dispatched, nothing is lost).
C22_FramesKeptWhileLoading ==
    [][(CallbackRan /\ AnyLoading)
          => /\ whisperBufferLength' = whisperBufferLength + FrameSize
             /\ voskBufferLength' = voskBufferLength + FrameSize]_vars

BothLoading == engineStatus = [vosk |-> "loading", whisper |-> "loading"]

\* C23: an engine's status changes only from "loading" to "ready" or to
\* "error"; a status of "ready" or "error" changes only by reloadModel(),
\* which leaves both engines "loading".
C23_TerminalUntilReload ==
    [][\A e \in Engines :
           engineStatus'[e] # engineStatus[e]
               => \/ engineStatus[e] = "loading"
                  \/ BothLoading']_vars

BothError == engineStatus = [vosk |-> "error", whisper |-> "error"]

\* C24: isModelLoading is true exactly while an engine is loading, and the
\* error is the both-engines-failed one exactly when both engines are in error.
C24_DerivedFromEnginePair ==
    /\ isModelLoading <=> AnyLoading
    /\ error = "both engines failed" <=> BothError

\* The first half of C24 alone.
LoadingDerivedFromEnginePair == isModelLoading <=> AnyLoading

\* The Dashboard's main button is enabled and its onClick is toggleListening:
\* it is disabled while isModelLoading, and calls reloadModel while the
\* hook's error is set.
MainButtonToggles == ~isModelLoading /\ error = "none"

\* C26: when vosk failed to initialise and whisper is ready, no error is
\* reported (the Dashboard's main button starts a session only while the
\* hook's error is null, and reloads otherwise).
C26_DegradedFastStartsSession ==
    (voskInit = "done" /\ ~voskRecognizer /\ engineStatus.whisper = "ready"
        /\ controls = 0)
        => MainButtonToggles

\* C27: while both engines are in error no step starts a session: a hook
\* that is not listening stays so.
C27_FailedNeverStarts ==
    [][(BothError /\ ~isListening) => ~isListening']_vars

\* C28: a step that takes one engine's status to "ready" or "error" leaves
\* the other engine's status as it was.
C28_EngineEventIsLocal ==
    [][\A e \in Engines :
           (engineStatus'[e] # engineStatus[e] /\ engineStatus'[e] # "loading")
               => engineStatus'[OtherEngine(e)] = engineStatus[OtherEngine(e)]]_vars

\* vosk answered 'ready' and whisper answered its 'init' with 'error'.
C28_Witness ==
    /\ engineStatus = [vosk |-> "ready", whisper |-> "error"]
    /\ voskRecognizer
    /\ whisperInit = "done"
    /\ ~whisperTranscriber

\* An 'error' message is handled by the hook: a worker answers 'init' or a
\* 'transcribe' with 'error'.
ErrorEvent ==
    \/ VoskInitDone(FALSE)
    \/ WhisperInitDone(FALSE)
    \/ \E ok \in BOOLEAN : ~(voskRecognizer /\ ok) /\ VoskWorkerTranscribe(ok)
    \/ WhisperError

\* C29: a step that handles an 'error' message of either worker leaves text
\* and interimText as they were.
C29_ErrorKeepsDisplay == [][ErrorEvent => UNCHANGED displayVars]_vars

\* vosk answered 'init' with 'error' while both texts were set: the texts
\* come from the recognizer of before a reload (voskHeard is false since).
C29_Witness ==
    /\ voskInit = "done"
    /\ ~voskRecognizer
    /\ ~voskHeard
    /\ text # <<>>
    /\ interimText # <<>>

(***************************************************************************)
(* Degraded mode, over the history of delivered events                     *)
(***************************************************************************)

\* A Whisper 'error' was handled before event i.
AccurateFailedBefore(i) == \E j \in 1..(i - 1) : IsEngineError(j)

TimerFired == timerAt # -1 /\ timerAt' = -1 /\ frames' = frames /\ capturing'

\* A Whisper 'transcribe' failed: the transcriber exists and the status is
\* "error".
AccurateSubmissionFailed == whisperTranscriber /\ engineStatus.whisper = "error"

\* C30: after a Whisper 'transcribe' failed, the settle timer that fires with
\* at least 1 s buffered still posts the window to the whisper worker.
C30_FailedSubmissionKeepsEngine ==
    [][(AccurateSubmissionFailed /\ TimerFired
           /\ whisperBufferLength >= MinWhisperSamples)
          => WhisperDispatched]_vars

(***************************************************************************)
(* Properties of the control surface, over the steps of the hook           *)
(***************************************************************************)

\* A call of start(), stop() or reload().
ControlCalled == controls' = controls + 1

\* startListening() ran into its catch: 'Audio Error: ...' is set.
StartFailed == ControlCalled /\ error' = "audio error"

\* C31: a startListening() that cannot acquire the audio source leaves
\* isListening false and the processor unconnected, sets the error, posts no
\* window and leaves text and interimText as they were; only a call of the
\* control surface starts a session.
C31_CaptureErrorAbortsStart ==
    [][/\ StartFailed
          => /\ ~isListening' /\ ~capturing'
             /\ ~VoskDispatched /\ ~WhisperDispatched
             /\ UNCHANGED displayVars
       /\ (isListening' /\ ~isListening) => ControlCalled]_vars

\* startListening() failed with both engines ready.
C31_Witness ==
    /\ error = "audio error"
    /\ ~isListening
    /\ ~capturing
    /\ engineStatus = [vosk |-> "ready", whisper |-> "ready"]

\* reloadModel() ran.
Reloaded == ControlCalled /\ BothLoading'

\* C32: reloadModel() leaves text and interimText empty.
C32_ReloadResetsDisplay ==
    [][Reloaded => (text' = <<>> /\ interimText' = <<>>)]_vars

\* C33: while the processor is not connected (from stop() to the next
\* start()) the Whisper buffer is empty, no settle timer is pending and no
\* window is posted to either worker.
C33_StopReleasesAccuratePath ==
    [][~capturing'
          => /\ whisperBuffer' = <<>>
             /\ whisperBufferLength' = 0
             /\ timerAt' = -1
             /\ ~VoskDispatched
             /\ ~WhisperDispatched]_vars

\* stop() was called while the settle timer was pending: the cancelled
\* timer's id is still in silenceTimeoutRef.
C33_Witness ==
    /\ ~capturing
    /\ silenceTimeoutRef
    /\ timerAt = -1
    /\ frames >= ArmFrames

(***************************************************************************)
(* Properties of the buffers' length counters                              *)
(***************************************************************************)

\* C37: each length counter is the sum of the lengths of the chunks its
\* buffer holds: whisperBufferLengthRef for whisperBufferRef and
\* voskBufferLength for voskBuffer.
C37_CountersMatchBuffers ==
    /\ whisperBufferLength = Samples(whisperBuffer)
    /\ voskBufferLength = Samples(voskBuffer)

\* stop() was called in a session that had posted a window to each worker:
\* the Whisper buffer is empty, voskBuffer holds the overlap and what
\* came after it.
C37_Witness ==
    /\ ~capturing
    /\ whisperSent.count > 0
    /\ whisperBuffer = <<>>
    /\ voskBuffer # <<>>
    /\ voskBuffer[1].n = OverlapSamples

(***************************************************************************)
(* Properties of a session started after stop()                            *)
(***************************************************************************)

\* A callback was processed that arms the settle timer in a first session:
\* no speech in it, more than 2 s buffered, more than 1.5 s since the last
\* speech.
ArmingCallback ==
    /\ CallbackRan
    /\ lastCallback'.processed
    /\ lastCallback'.rms <= SPEECH_THRESHOLD
    /\ whisperBufferLength' > MinArmSamples
    /\ now' - lastSpeechTime' > WHISPER_SILENCE_THRESHOLD

\* C38: in a session started after stop() as in a first session, the
\* settle timer is pending after every callback that meets the arming
\* conditions.
C38_RestartArmsLikeFirstSession == [][ArmingCallback => timerAt' # -1]_vars

(***************************************************************************)
(* Liveness of the engine health tracker                                   *)
(***************************************************************************)

\* C39: with workers that answer 'init', an engine that is loading (after
\* mount or after reloadModel()) leaves "loading", and isModelLoading
\* becomes false.
C39_LoadingEnds ==
    /\ \A e \in Engines : (engineStatus[e] = "loading") ~> (engineStatus[e] # "loading")
    /\ isModelLoading ~> ~isModelLoading

\* Loading has ended after a reload, both engines having failed (the texts
\* come from the recognizer of before the reload).
C39_Witness ==
    /\ ~isModelLoading
    /\ BothError
    /\ ~voskRecognizer
    /\ ~whisperTranscriber
    /\ interimText # <<>>

(***************************************************************************)
(* Properties of the Vosk dispatch's RMS test                              *)
(***************************************************************************)

\* C36: a window is posted to the vosk worker only if the RMS over the whole
\* window exceeds the speech threshold. While no callback of the session has
\* exceeded the threshold, no window's RMS does: so no window has been posted.
C36_AggregateRmsGatesDispatch == voskSent.window # <<>> => SpeechSeen

(***************************************************************************)
(* SubtitlePopup: the overlay window. It receives the transcript whenever  *)
(* it changes: a word appended after a space (a Fast Final that is         *)
(* appended), or another text in its place (a Final that replaces).        *)
(***************************************************************************)

\* Max characters before clearing.
MAX_DISPLAY_CHARS == 180

\* The break point is searched from this many characters before the end.
BreakMargin == 10

\* Characters of the transcript up to which the overlay is explored.
MaxTranscriptChars == 230

\* s.lastIndexOf(ch, fromIndex): 0-based, -1 when there is none.
LastIndexOfChar(s, ch, fromIndex) ==
    LET from == IF fromIndex < 0 THEN 0 ELSE fromIndex
        found == {i \in 0..from : i < Len(s) /\ s[i + 1] = ch}
    IN  IF found = {} THEN -1 ELSE MaxOf(found)

\* updateDisplayText(newText)
UpdateDisplayText(newText) ==
    LET textSinceLastClear == SliceFrom(newText, lastClearPointRef)
    IN  /\ fullTextRef' = newText
        /\ IF Len(textSinceLastClear) <= MAX_DISPLAY_CHARS
           THEN /\ displayText' = textSinceLastClear
                /\ lastClearPointRef' = lastClearPointRef
           ELSE LET breakPoint ==
                        LastIndexOfChar(newText, " ", Len(newText) - BreakMargin)
                    clear == IF breakPoint > lastClearPointRef
                             THEN breakPoint + 1 ELSE Len(newText)
                IN  /\ lastClearPointRef' = clear
                    /\ displayText' = SliceFrom(newText, clear)

\* A word of n letters.
WordOf(n) == [k \in 1..n |-> "a"]

\* Words appended to the transcript, and texts that replace it.
PopupWords == {WordOf(19), WordOf(29)}

PopupTexts == {Hello, WeatherNice}

\* The overlay receives the transcript with a word appended.
TranscriptGrows(word) ==
    /\ Len(fullTextRef) + 1 + Len(word) <= MaxTranscriptChars
    /\ UpdateDisplayText(IF fullTextRef = <<>> THEN word
                         ELSE fullTextRef \o <<" ">> \o word)
    /\ UNCHANGED <<hybridVars, speech>>

\* The overlay receives a transcript that replaced the one before.
TranscriptReplaced(newText) ==
    /\ newText # fullTextRef
    /\ UpdateDisplayText(newText)
    /\ UNCHANGED <<hybridVars, speech>>

NextPopup ==
    \/ \E word \in PopupWords : TranscriptGrows(word)
    \/ \E newText \in PopupTexts : TranscriptReplaced(newText)

SpecPopup == Init /\ [][NextPopup]_vars

\* C40: after the overlay received a non-empty transcript of at most
\* MAX_DISPLAY_CHARS characters, the text it displays is not empty.
C40_ShortTranscriptDisplayed ==
    (fullTextRef # <<>> /\ Len(fullTextRef) <= MAX_DISPLAY_CHARS)
        => displayText # <<>>

(***************************************************************************)
(* useSpeechRecognition: the single-engine hook, whose audio callback      *)
(* guards its dispatch with isProcessingRef.                               *)
(***************************************************************************)

\* createScriptProcessor(4096, 1, 1)
SpeechFrameSize == 4096

SpeechFrameMs == (SpeechFrameSize * 1000) \div SampleRate

\* 16000 * 2
CHUNK_SIZE == 32000

\* 16000 * 0.5
OVERLAP_SIZE == 8000

MIN_PROCESS_INTERVAL == 1500

\* chunkRMS > 0.001, in units of 0.0001
ChunkRmsThreshold == 10

\* Callbacks, RMS changes, answers and control calls explored.
MaxSpeechFrames == 16

MaxSpeechTurns == 2

MaxSpeechAnswers == 2

MaxSpeechCalls == 3

\* s.startsWith(pre), s.endsWith(suf), s.slice(0, n)
StartsWith(s, pre) == Len(pre) <= Len(s) /\ SubSeq(s, 1, Len(pre)) = pre

EndsWith(s, suf) ==
    Len(suf) <= Len(s) /\ SubSeq(s, Len(s) - Len(suf) + 1, Len(s)) = suf

SliceFirst(s, n) == SubSeq(s, 1, IF Len(s) > n THEN n ELSE Len(s))

\* The setText updater of the 'result' handler.
SpeechMerge(prev, clean) ==
    IF prev # <<>> /\ Len(clean) > 0
    THEN LET prevLower == Trim(ToLowerCase(prev))
             cleanLower == Trim(ToLowerCase(clean))
         IN  IF /\ ~StartsWith(cleanLower, SliceLast(prevLower, 20))
                /\ ~EndsWith(prevLower, SliceFirst(cleanLower, 10))
             THEN prev \o <<" ">> \o clean
             ELSE IF Len(clean) > Len(prev) THEN clean
                  ELSE prev \o <<" ">> \o clean
    ELSE clean

\* Sum of the squares of the buffered samples, in units of 0.0001^2.
RECURSIVE ChunkSum(_)
ChunkSum(buffer) ==
    IF buffer = <<>> THEN 0
    ELSE Head(buffer).n * Head(buffer).rms * Head(buffer).rms
         + ChunkSum(Tail(buffer))

\* chunkRMS > 0.001, with chunkRMS = sqrt(chunkSum / bufferLength)
ChunkLoud(buffer, bufferLength) ==
    ChunkSum(buffer) > ChunkRmsThreshold * ChunkRmsThreshold * bufferLength

\* The loop that keeps the chunks from tempOffset samples on.
RECURSIVE KeepFrom(_, _)
KeepFrom(buffer, tempOffset) ==
    IF buffer = <<>> THEN <<>>
    ELSE LET b == Head(buffer)
             rest == KeepFrom(Tail(buffer), tempOffset - b.n)
         IN  IF tempOffset <= 0 THEN <<b>> \o rest
             ELSE IF tempOffset < b.n
                  THEN <<[n |-> b.n - tempOffset, rms |-> b.rms]>> \o rest
                  ELSE rest

RECURSIVE SamplesOf(_)
SamplesOf(buffer) ==
    IF buffer = <<>> THEN 0 ELSE Head(buffer).n + SamplesOf(Tail(buffer))

\* The last OVERLAP_SIZE samples of the buffer, or the whole of a buffer
\* that is not longer.
KeepTail(buffer, bufferLength) ==
    IF bufferLength > OVERLAP_SIZE
    THEN KeepFrom(buffer, bufferLength - OVERLAP_SIZE)
    ELSE buffer

\* Math.min(100, Math.round(rms * 1000))
SpeechLevel(rms) ==
    LET level == (rms + 5) \div 10 IN IF level > 100 THEN 100 ELSE level

\* The worker's 'ready' or 'error' answer to 'init' arrives.
SpeechWorkerInitDone(ok) ==
    /\ speech.workerInit = "pending"
    /\ speech' = IF ok
                 THEN [speech EXCEPT !.workerInit = "done",
                                     !.transcriber = TRUE,
                                     !.isModelLoading = FALSE,
                                     !.error = "none"]
                 ELSE [speech EXCEPT !.workerInit = "done",
                                     !.transcriber = FALSE,
                                     !.isProcessing = FALSE,
                                     !.error = "engine",
                                     !.isModelLoading = FALSE]
    /\ UNCHANGED <<hybridVars, popupVars>>

\* stopListening()
SpeechStopped(s) ==
    [s EXCEPT !.capturing = FALSE, !.isListening = FALSE, !.audioLevel = 0]

\* startListening() from the toggle, which calls it while not listening.
SpeechStart(ok) ==
    /\ ~speech.isListening
    /\ speech.calls < MaxSpeechCalls
    /\ speech' = IF ok
                 THEN [speech EXCEPT !.error = "none",
                                     !.buffer = <<>>,
                                     !.bufferLength = 0,
                                     !.lastProcessTime = 0,
                                     !.capturing = TRUE,
                                     !.isListening = TRUE,
                                     !.calls = @ + 1]
                 ELSE [speech EXCEPT !.error = "mic",
                                     !.isListening = FALSE,
                                     !.calls = @ + 1]
    /\ UNCHANGED <<hybridVars, popupVars>>

\* stopListening() from the toggle, which calls it while listening.
SpeechStop ==
    /\ speech.isListening
    /\ speech.calls < MaxSpeechCalls
    /\ speech' = [SpeechStopped(speech) EXCEPT !.calls = @ + 1]
    /\ UNCHANGED <<hybridVars, popupVars>>

\* reloadModel(): the effect on [retryCount] terminates the worker, and with
\* it the request it has not answered, and creates the next one.
SpeechReload ==
    /\ speech.calls < MaxSpeechCalls
    /\ speech' = [SpeechStopped(speech) EXCEPT !.isModelLoading = TRUE,
                                               !.error = "none",
                                               !.workerInit = "pending",
                                               !.transcriber = FALSE,
                                               !.inbox = 0,
                                               !.calls = @ + 1]
    /\ UNCHANGED <<hybridVars, popupVars>>

\* processor.onaudioprocess, with busy the value read for the dispatch guard.
SpeechCallback(rms, busy) ==
    LET t == speech.now + SpeechFrameMs
        heard == [speech EXCEPT !.now = t,
                                !.frames = @ + 1,
                                !.heard = rms,
                                !.turns = IF speech.heard \in {-1, rms}
                                          THEN @ ELSE @ + 1]
        buffer == Append(speech.buffer, [n |-> SpeechFrameSize, rms |-> rms])
        bufferLength == speech.bufferLength + SpeechFrameSize
        ripe == /\ bufferLength >= CHUNK_SIZE
                /\ t - speech.lastProcessTime >= MIN_PROCESS_INTERVAL
        loud == ChunkLoud(buffer, bufferLength)
        shouldProcess == ripe /\ ~busy
        kept == KeepTail(buffer, bufferLength)
    IN  /\ speech.capturing
        /\ speech.frames < MaxSpeechFrames
        /\ speech.heard \in {-1, rms} \/ speech.turns < MaxSpeechTurns
        /\ speech' =
             IF speech.isModelLoading
             THEN [heard EXCEPT !.due = FALSE, !.idle = FALSE, !.sent = FALSE]
             ELSE IF shouldProcess /\ loud
             THEN [heard EXCEPT !.audioLevel = SpeechLevel(rms),
                                !.isProcessing = TRUE,
                                !.interimText = <<"Listening...">>,
                                !.inbox = @ + 1,
                                !.lastProcessTime = t,
                                !.buffer = kept,
                                !.bufferLength = SamplesOf(kept),
                                !.due = TRUE,
                                !.idle = speech.inbox = 0,
                                !.sent = TRUE]
             ELSE IF shouldProcess
             THEN [heard EXCEPT !.audioLevel = SpeechLevel(rms),
                                !.buffer = kept,
                                !.bufferLength = SamplesOf(kept),
                                !.due = FALSE,
                                !.idle = speech.inbox = 0,
                                !.sent = FALSE]
             ELSE [heard EXCEPT !.audioLevel = SpeechLevel(rms),
                                !.buffer = buffer,
                                !.bufferLength = bufferLength,
                                !.due = ripe /\ loud,
                                !.idle = speech.inbox = 0,
                                !.sent = FALSE]
        /\ UNCHANGED <<hybridVars, popupVars>>

\* onaudioprocess without the !isProcessingRef.current conjunct.
SpeechAudioProcessUnguarded(rms) == SpeechCallback(rms, FALSE)

\* processor.onaudioprocess
SpeechAudioProcess(rms) == SpeechCallback(rms, speech.isProcessing)

\* The worker answers a 'transcribe' with a 'result', and the hook handles it.
SpeechWorkerResult(raw) ==
    LET clean == Trim(Trim(raw))
        done == [speech EXCEPT !.inbox = @ - 1,
                               !.isProcessing = FALSE,
                               !.answers = @ + 1]
    IN  /\ speech.inbox > 0
        /\ speech.transcriber
        /\ speech.answers < MaxSpeechAnswers
        /\ speech' = IF Len(clean) > 0
                     THEN [done EXCEPT !.text = SpeechMerge(speech.text, clean),
                                       !.interimText = <<>>]
                     ELSE done
        /\ UNCHANGED <<hybridVars, popupVars>>

\* The worker answers a 'transcribe' with an 'error' (no transcriber, or the
\* inference failed), and the hook handles it.
SpeechWorkerError ==
    /\ speech.inbox > 0
    /\ speech.answers < MaxSpeechAnswers
    /\ speech' = [speech EXCEPT !.inbox = @ - 1,
                                !.isProcessing = FALSE,
                                !.error = "engine",
                                !.isModelLoading = FALSE,
                                !.answers = @ + 1]
    /\ UNCHANGED <<hybridVars, popupVars>>

NextSpeech ==
    \/ \E ok \in BOOLEAN : SpeechWorkerInitDone(ok)
    \/ \E ok \in BOOLEAN : SpeechStart(ok)
    \/ SpeechStop
    \/ SpeechReload
    \/ \E rms \in RmsLevels : SpeechAudioProcess(rms)
    \/ \E raw \in AccurateTexts : SpeechWorkerResult(raw)
    \/ SpeechWorkerError

SpecSpeech == Init /\ [][NextSpeech]_vars

\* C34: in the single-engine hook at most one 'transcribe' request is
\* awaiting its result or error at any time.
C34_OneRequestInFlight == speech.inbox <= 1

\* A callback whose buffer met the size, interval and signal conditions ran
\* while a request was in flight, and posted nothing.
C34_Witness ==
    /\ speech.due
    /\ ~speech.idle
    /\ ~speech.sent
    /\ speech.inbox = 1

\* C35: once the engine is ready and capture runs, a callback whose buffer
\* meets the size, interval and signal conditions while no request is in
\* flight posts the window, also after a reload.
C35_IdleEngineDispatches ==
    (speech.due /\ speech.idle /\ speech.transcriber) => speech.sent

====
